---- MODULE Spec2Model ----
(***************************************************************************)
(* Model of protocol/ntp/packet.go: the 48-byte NTP packet codec, the      *)
(* settings-byte validator and the two receive functions.                  *)
(*                                                                         *)
(* Number representation.  TLC integers are 32-bit signed, so a Go uint32  *)
(* is written as the pair <<hi, lo>> of its two 16-bit halves (value       *)
(* hi * 65536 + lo); uint8 is 0..255 and int8 is -128..127.  The kernel    *)
(* timestamps used as inputs stay below 2^31 so the int64 fields of a      *)
(* Timespec are plain integers.  The control-message geometry is that of   *)
(* linux/amd64 (16-byte cmsghdr, 16-byte Timespec, little-endian).         *)
(***************************************************************************)
EXTENDS Integers, Sequences, FiniteSets, TLC

VARIABLES
    pkt,        \* codec: the Packet value handed to Bytes / ValidSettingsFormat
    wire,       \* codec: the byte slice handed to BytesToPacket
    encRes,     \* codec: what Bytes returned, once it returned
    decRes,     \* codec: what BytesToPacket returned, once it returned
    validRes,   \* codec: what ValidSettingsFormat returned, once it returned
    pc,         \* receivers: position of each call
    kind,       \* receivers: which function each call runs
    buf,        \* receivers: each call's payload buffer
    oob,        \* receivers: each call's ancillary buffer
    ret,        \* receivers: the values each call returned
    got,        \* receivers: the datagram each call's receive delivered
    nrecv,      \* receivers: receives issued by the current invocation
    extracted,  \* receivers: the invocation read the timestamp from oob
    decoded     \* receivers: the invocation called BytesToPacket

codecVars == <<pkt, wire, encRes, decRes, validRes>>
recvVars == <<pc, kind, buf, oob, ret, got, nrecv, extracted, decoded>>
vars == <<pkt, wire, encRes, decRes, validRes,
          pc, kind, buf, oob, ret, got, nrecv, extracted, decoded>>

(* A result variable is <<>> before the call returned and <<r>> after.     *)
(* NoErr is a nil error; NilPtr a nil *Packet or a nil net.Addr.           *)
NoErr == "nil"
NilPtr == [nil |-> TRUE]

----------------------------------------------------------------------------
(* Constants of packet.go *)

NTPPacketSizeBytes == 48
ControlHeaderSizeBytes == 32
liNoWarning == 0
liAlarmCondition == 3
vnFirst == 1
vnLast == 4
modeClient == 3

(* Bounds of the model *)
MaxExtra == 2      \* trailing bytes appended to a 48-byte buffer
NumCalls == 2      \* concurrent callers of the receive functions

----------------------------------------------------------------------------
(* The Packet struct, in declaration order *)

U32Fields == <<"RootDelay", "RootDispersion", "ReferenceID",
               "RefTimeSec", "RefTimeFrac", "OrigTimeSec", "OrigTimeFrac",
               "RxTimeSec", "RxTimeFrac", "TxTimeSec", "TxTimeFrac">>

Packet(settings, stratum, poll, precision, u) ==
    [Settings |-> settings, Stratum |-> stratum,
     Poll |-> poll, Precision |-> precision,
     RootDelay |-> u[1], RootDispersion |-> u[2], ReferenceID |-> u[3],
     RefTimeSec |-> u[4], RefTimeFrac |-> u[5],
     OrigTimeSec |-> u[6], OrigTimeFrac |-> u[7],
     RxTimeSec |-> u[8], RxTimeFrac |-> u[9],
     TxTimeSec |-> u[10], TxTimeFrac |-> u[11]]

ZeroPacket == Packet(0, 0, 0, 0, [i \in 1..11 |-> <<0, 0>>])

----------------------------------------------------------------------------
(* uint8 shifts: Go truncates the result of << on a uint8 to 8 bits *)

Shl8NoTrunc(x, n) == x * (2 ^ n)

Shl8(x, n) == (x * (2 ^ n)) % 256

Shr8(x, n) == x \div (2 ^ n)

ValidSettingsFormat(p) ==
    LET settings == p.Settings
        l == Shr8(settings, 6)
        v == Shr8(Shl8(settings, 2), 5)
        m == Shr8(Shl8(settings, 5), 5)
    IN  IF (l = liNoWarning) \/ (l = liAlarmCondition)
        THEN IF (v >= vnFirst) /\ (v <= vnLast)
             THEN IF m = modeClient THEN TRUE ELSE FALSE
             ELSE FALSE
        ELSE FALSE

----------------------------------------------------------------------------
(* encoding/binary with binary.BigEndian over the fixed-size struct *)

PutUint8(x) == <<x>>

PutInt8(x) == <<x % 256>>

PutUint32LittleEndian(x) ==
    <<x[2] % 256, x[2] \div 256, x[1] % 256, x[1] \div 256>>

PutUint32(x) ==
    <<x[1] \div 256, x[1] % 256, x[2] \div 256, x[2] % 256>>

Uint8(b, off) == b[off + 1]

Int8Unsigned(b, off) == b[off + 1]

Int8(b, off) == IF b[off + 1] >= 128 THEN b[off + 1] - 256 ELSE b[off + 1]

Uint32(b, off) ==
    <<b[off + 1] * 256 + b[off + 2], b[off + 3] * 256 + b[off + 4]>>

RECURSIVE Concat(_)
Concat(ss) == IF ss = <<>> THEN <<>> ELSE Head(ss) \o Concat(Tail(ss))

(* binary.Write(&bytes, binary.BigEndian, p): every field in order *)
EncodeFields(p) ==
    PutUint8(p.Settings) \o PutUint8(p.Stratum)
    \o PutInt8(p.Poll) \o PutInt8(p.Precision)
    \o Concat([i \in 1..11 |-> PutUint32(p[U32Fields[i]])])

(* Bytes: writing to a bytes.Buffer cannot fail *)
Bytes(p) == [b |-> EncodeFields(p), err |-> NoErr]

(* the struct filled from the 48 bytes binary.Read obtained *)
DecodeFields(b) ==
    Packet(Uint8(b, 0), Uint8(b, 1), Int8(b, 2), Int8(b, 3),
           [i \in 1..11 |-> Uint32(b, 4 * i)])

BytesToPacketZeroPad(ntpPacketBytes) ==
    LET n == Len(ntpPacketBytes)
        padded == [i \in 1..NTPPacketSizeBytes |->
                     IF i <= n THEN ntpPacketBytes[i] ELSE 0]
    IN  [ntp |-> DecodeFields(padded), err |-> NoErr]

BytesToPacketLast48(ntpPacketBytes) ==
    LET n == Len(ntpPacketBytes)
    IN  IF n = 0 THEN [ntp |-> ZeroPacket, err |-> "EOF"]
        ELSE IF n < NTPPacketSizeBytes
        THEN [ntp |-> ZeroPacket, err |-> "ErrUnexpectedEOF"]
        ELSE [ntp |-> DecodeFields(SubSeq(ntpPacketBytes,
                                          n - NTPPacketSizeBytes + 1, n)),
              err |-> NoErr]

(* BytesToPacket: binary.Read does io.ReadFull of the struct's 48 bytes.   *)
(* Nothing read: io.EOF; fewer than 48: io.ErrUnexpectedEOF; in both       *)
(* cases the freshly allocated &Packet{} is returned untouched with the    *)
(* error.  Otherwise the first 48 bytes fill the struct.                   *)
BytesToPacket(ntpPacketBytes) ==
    LET n == Len(ntpPacketBytes)
    IN  IF n = 0 THEN [ntp |-> ZeroPacket, err |-> "EOF"]
        ELSE IF n < NTPPacketSizeBytes
        THEN [ntp |-> ZeroPacket, err |-> "ErrUnexpectedEOF"]
        ELSE [ntp |-> DecodeFields(SubSeq(ntpPacketBytes, 1,
                                          NTPPacketSizeBytes)),
              err |-> NoErr]

----------------------------------------------------------------------------
(* The receive path.  Geometry of golang.org/x/sys/unix on linux/amd64. *)

SizeofPtr == 8
SizeofCmsghdr == 16
SizeofTimespec == 16

cmsgAlignOf(salen) == ((salen + SizeofPtr - 1) \div SizeofPtr) * SizeofPtr

CmsgSpace(datalen) == cmsgAlignOf(SizeofCmsghdr) + cmsgAlignOf(datalen)

(* make([]byte, n): a fresh slice of n zero bytes *)
make(n) == [i \in 1..n |-> 0]

(* what the kernel does with a caller's buffer: the first                  *)
(* min(len(dst), len(src)) bytes are overwritten, the rest is untouched    *)
CopyInto(dst, src) ==
    [i \in 1..Len(dst) |-> IF i <= Len(src) THEN src[i] ELSE dst[i]]

(* the little-endian int64 at oob[off .. off+7], by Horner's rule from the *)
(* most significant byte                                                   *)
Int64At(b, off) ==
    LET B(i) == b[off + i]
    IN  ((((((B(8) * 256 + B(7)) * 256 + B(6)) * 256 + B(5)) * 256
            + B(4)) * 256 + B(3)) * 256 + B(2)) * 256 + B(1)

(* the syscall.Timespec that the pointer cast at &oob[off] reads *)
TimespecAt(b, off) ==
    [Sec |-> Int64At(b, off), Nsec |-> Int64At(b, off + 8)]

(* time.Unix(sec, nsec): nsec outside [0, 1e9) is carried into sec *)
timeUnix(sec, nsec) ==
    IF nsec < 0 \/ nsec >= 1000000000
    THEN LET n == IF nsec >= 0 THEN nsec \div 1000000000
                  ELSE -((-nsec) \div 1000000000)
             s1 == sec + n
             ns1 == nsec - n * 1000000000
         IN  IF ns1 < 0 THEN [sec |-> s1 - 1, nsec |-> ns1 + 1000000000]
             ELSE [sec |-> s1, nsec |-> ns1]
    ELSE [sec |-> sec, nsec |-> nsec]

(* time.Time{} *)
ZeroTime == [zero |-> TRUE]

(* the *net.UDPAddr made from the sockaddr the receive call returned *)
sockaddrToUDP(sa) == [IP |-> sa.Addr, Port |-> sa.Port]

(* connFd(conn): the descriptor of the connection, or an error *)
connFd(ok) ==
    IF ok THEN [fd |-> 3, err |-> NoErr]
    ELSE [fd |-> -1, err |-> "SocketAccessError"]

----------------------------------------------------------------------------
(* Codec inputs: the Packet values and byte slices the callers pass in *)

SettingsPackets ==
    {[ZeroPacket EXCEPT !.Settings = s] : s \in 0..255}

U32Vals == {<<0, 0>>, <<258, 772>>, <<65535, 65535>>}

SmallFieldVals ==
    {<<0, 0, 0, 0>>, <<27, 1, 6, -20>>, <<255, 255, 127, 127>>,
     <<227, 16, -128, -128>>, <<28, 2, -1, -1>>}

FieldPackets ==
    {Packet(s[1], s[2], s[3], s[4], [i \in 1..11 |-> IF i = hot THEN a ELSE b]) :
        s \in SmallFieldVals, hot \in 0..11, a \in U32Vals, b \in U32Vals}

PacketInputs == SettingsPackets \cup FieldPackets

TrailingBytes == {0, 255}

RecvInit ==
    /\ pc = [c \in 1..NumCalls |-> "idle"]
    /\ kind = [c \in 1..NumCalls |-> "none"]
    /\ buf = [c \in 1..NumCalls |-> <<>>]
    /\ oob = [c \in 1..NumCalls |-> <<>>]
    /\ ret = [c \in 1..NumCalls |-> <<>>]
    /\ got = [c \in 1..NumCalls |-> <<>>]
    /\ nrecv = [c \in 1..NumCalls |-> 0]
    /\ extracted = [c \in 1..NumCalls |-> FALSE]
    /\ decoded = [c \in 1..NumCalls |-> FALSE]

CodecInit ==
    /\ pkt \in PacketInputs
    /\ wire = <<>>
    /\ encRes = <<>>
    /\ decRes = <<>>
    /\ validRes = <<>>
    /\ RecvInit

(* p.ValidSettingsFormat() *)
CallValidSettingsFormat ==
    /\ validRes = <<>>
    /\ validRes' = <<ValidSettingsFormat(pkt)>>
    /\ UNCHANGED <<pkt, wire, encRes, decRes>>
    /\ UNCHANGED recvVars

(* p.Bytes(); the caller keeps the slice *)
CallBytes ==
    /\ encRes = <<>>
    /\ encRes' = <<Bytes(pkt)>>
    /\ wire' = encRes'[1].b
    /\ UNCHANGED <<pkt, decRes, validRes>>
    /\ UNCHANGED recvVars

(* the caller hands BytesToPacket a shorter slice of the bytes *)
SliceBuffer ==
    /\ encRes # <<>> /\ decRes = <<>> /\ wire = encRes[1].b
    /\ \E n \in 0..(NTPPacketSizeBytes - 1) : wire' = SubSeq(wire, 1, n)
    /\ UNCHANGED <<pkt, encRes, decRes, validRes>>
    /\ UNCHANGED recvVars

(* the caller hands BytesToPacket the bytes followed by trailing bytes *)
AppendTrailing ==
    /\ encRes # <<>> /\ decRes = <<>> /\ wire = encRes[1].b
    /\ \E k \in 1..MaxExtra, x \in TrailingBytes :
          wire' = wire \o [i \in 1..k |-> x]
    /\ UNCHANGED <<pkt, encRes, decRes, validRes>>
    /\ UNCHANGED recvVars

(* BytesToPacket(wire) *)
CallBytesToPacket ==
    /\ encRes # <<>> /\ decRes = <<>>
    /\ decRes' = <<BytesToPacket(wire)>>
    /\ UNCHANGED <<pkt, wire, encRes, validRes>>
    /\ UNCHANGED recvVars

CodecNext ==
    \/ CallValidSettingsFormat
    \/ CallBytes
    \/ SliceBuffer
    \/ AppendTrailing
    \/ CallBytesToPacket

SpecCodec == CodecInit /\ [][CodecNext]_vars

----------------------------------------------------------------------------
(* Receive inputs: the datagrams the kernel can deliver.  A datagram is    *)
(* its payload, the control bytes the kernel writes into the ancillary     *)
(* buffer (their count is the oobn that Recvmsg returns) and the sender.   *)

RECURSIVE LittleEndian(_, _)
LittleEndian(v, n) ==
    IF n = 0 THEN <<>> ELSE <<v % 256>> \o LittleEndian(v \div 256, n - 1)

Cmsghdr(len, level, type) ==
    LittleEndian(len, 8) \o LittleEndian(level, 4) \o LittleEndian(type, 4)

(* SOL_SOCKET / SCM_TIMESTAMPNS carrying one Timespec *)
TimestampControl(sec, nsec) ==
    Cmsghdr(CmsgSpace(0) + SizeofTimespec, 1, 35)
    \o LittleEndian(sec, 8) \o LittleEndian(nsec, 8)

(* SOL_IP / IP_TOS carrying one byte, padded to the alignment: a control   *)
(* message that is not a timestamp and is shorter than one                 *)
TosControl == Cmsghdr(SizeofCmsghdr + 1, 0, 1) \o <<184>> \o make(7)

RequestPacket == Packet(27, 1, 6, -20, [i \in 1..11 |-> <<258, 772>>])

Payloads ==
    LET b == Bytes(RequestPacket).b
    IN  {b, SubSeq(b, 1, NTPPacketSizeBytes - 1), <<>>,
         b \o [i \in 1..MaxExtra |-> 255]}

Controls == {<<>>, TosControl, TimestampControl(1700000000, 123456789)}

Senders == {[Port |-> 123, Addr |-> <<10, 0, 0, 1>>],
            [Port |-> 40000, Addr |-> <<192, 168, 1, 7>>]}

Datagrams == [payload : Payloads, control : Controls, from : Senders]

RecvErrors == {"i/o timeout", "use of closed network connection"}

Calls == 1..NumCalls

----------------------------------------------------------------------------
(* ReadNTPPacket *)

(* a variant that keeps the buffer of the previous invocation *)
ReadNTPPacket_CallReusedBuf(c) ==
    /\ pc[c] \in {"idle", "done"}
    /\ pc' = [pc EXCEPT ![c] = "recv"]
    /\ kind' = [kind EXCEPT ![c] = "ReadNTPPacket"]
    /\ buf' = [buf EXCEPT ![c] = IF buf[c] = <<>> THEN make(NTPPacketSizeBytes)
                                 ELSE buf[c]]
    /\ oob' = [oob EXCEPT ![c] = <<>>]
    /\ ret' = [ret EXCEPT ![c] = <<>>]
    /\ got' = [got EXCEPT ![c] = <<>>]
    /\ nrecv' = [nrecv EXCEPT ![c] = 1]
    /\ extracted' = [extracted EXCEPT ![c] = FALSE]
    /\ decoded' = [decoded EXCEPT ![c] = FALSE]
    /\ UNCHANGED codecVars

(* entry: allocate buf and block in conn.ReadFromUDP(buf) *)
ReadNTPPacket_Call(c) ==
    /\ pc[c] \in {"idle", "done"}
    /\ pc' = [pc EXCEPT ![c] = "recv"]
    /\ kind' = [kind EXCEPT ![c] = "ReadNTPPacket"]
    /\ buf' = [buf EXCEPT ![c] = make(NTPPacketSizeBytes)]
    /\ oob' = [oob EXCEPT ![c] = <<>>]
    /\ ret' = [ret EXCEPT ![c] = <<>>]
    /\ got' = [got EXCEPT ![c] = <<>>]
    /\ nrecv' = [nrecv EXCEPT ![c] = 1]
    /\ extracted' = [extracted EXCEPT ![c] = FALSE]
    /\ decoded' = [decoded EXCEPT ![c] = FALSE]
    /\ UNCHANGED codecVars

(* ReadFromUDP failed: return nil, nil, err *)
ReadNTPPacket_Fail(c, e) ==
    /\ pc' = [pc EXCEPT ![c] = "done"]
    /\ ret' = [ret EXCEPT ![c] = <<[ntp |-> NilPtr, remAddr |-> NilPtr, err |-> e]>>]
    /\ UNCHANGED <<kind, buf, oob, got, nrecv, extracted, decoded>>

(* ReadFromUDP delivered d: decode the whole of buf and return *)
ReadNTPPacket_Deliver(c, d) ==
    LET filled == CopyInto(buf[c], d.payload)
        r == BytesToPacket(filled)
    IN  /\ buf' = [buf EXCEPT ![c] = filled]
        /\ got' = [got EXCEPT ![c] = <<d>>]
        /\ decoded' = [decoded EXCEPT ![c] = TRUE]
        /\ ret' = [ret EXCEPT ![c] =
                     <<[ntp |-> r.ntp, remAddr |-> sockaddrToUDP(d.from),
                        err |-> r.err]>>]
        /\ pc' = [pc EXCEPT ![c] = "done"]
        /\ UNCHANGED <<kind, oob, nrecv, extracted>>

(* a variant that receives again when the receive failed *)
ReadNTPPacket_ReturnRetry(c) ==
    /\ pc[c] = "recv" /\ kind[c] = "ReadNTPPacket"
    /\ \/ \E e \in RecvErrors :
             IF nrecv[c] < 2
             THEN /\ nrecv' = [nrecv EXCEPT ![c] = nrecv[c] + 1]
                  /\ UNCHANGED <<pc, kind, buf, oob, ret, got, extracted, decoded>>
             ELSE ReadNTPPacket_Fail(c, e)
       \/ \E d \in Datagrams : ReadNTPPacket_Deliver(c, d)
    /\ UNCHANGED codecVars

(* the blocked ReadFromUDP completes and the function returns *)
ReadNTPPacket_Return(c) ==
    /\ pc[c] = "recv" /\ kind[c] = "ReadNTPPacket"
    /\ \/ \E e \in RecvErrors : ReadNTPPacket_Fail(c, e)
       \/ \E d \in Datagrams : ReadNTPPacket_Deliver(c, d)
    /\ UNCHANGED codecVars

----------------------------------------------------------------------------
(* ReadPacketWithKernelTimestamp *)

(* entry: connFd; on error return at once, otherwise allocate buf and oob  *)
(* and block in syscall.Recvmsg(connfd, buf, oob, 0)                       *)
ReadPacketWithKernelTimestamp_Call(c) ==
    /\ pc[c] \in {"idle", "done"}
    /\ kind' = [kind EXCEPT ![c] = "ReadPacketWithKernelTimestamp"]
    /\ got' = [got EXCEPT ![c] = <<>>]
    /\ extracted' = [extracted EXCEPT ![c] = FALSE]
    /\ decoded' = [decoded EXCEPT ![c] = FALSE]
    /\ \E ok \in BOOLEAN :
          LET f == connFd(ok) IN
          IF f.err # NoErr
          THEN /\ pc' = [pc EXCEPT ![c] = "done"]
               /\ ret' = [ret EXCEPT ![c] =
                            <<[ntp |-> NilPtr, hwRxTime |-> ZeroTime,
                               remAddr |-> NilPtr, err |-> f.err]>>]
               /\ buf' = [buf EXCEPT ![c] = <<>>]
               /\ oob' = [oob EXCEPT ![c] = <<>>]
               /\ nrecv' = [nrecv EXCEPT ![c] = 0]
          ELSE /\ pc' = [pc EXCEPT ![c] = "recv"]
               /\ ret' = [ret EXCEPT ![c] = <<>>]
               /\ buf' = [buf EXCEPT ![c] = make(NTPPacketSizeBytes)]
               /\ oob' = [oob EXCEPT ![c] = make(ControlHeaderSizeBytes)]
               /\ nrecv' = [nrecv EXCEPT ![c] = 1]
    /\ UNCHANGED codecVars

(* Recvmsg failed: return nil, time.Time{}, nil, err *)
ReadPacketWithKernelTimestamp_Fail(c, e) ==
    /\ pc' = [pc EXCEPT ![c] = "done"]
    /\ ret' = [ret EXCEPT ![c] =
                 <<[ntp |-> NilPtr, hwRxTime |-> ZeroTime,
                    remAddr |-> NilPtr, err |-> e]>>]
    /\ UNCHANGED <<kind, buf, oob, got, nrecv, extracted, decoded>>

(* Recvmsg delivered d: n, oobn and the flags are discarded; the Timespec  *)
(* is read at oob[CmsgSpace(0)], the whole of buf is decoded               *)
ReadPacketWithKernelTimestamp_Deliver(c, d) ==
    LET filled == CopyInto(buf[c], d.payload)
        control == CopyInto(oob[c], d.control)
        ts == TimespecAt(control, CmsgSpace(0))
        r == BytesToPacket(filled)
    IN  /\ buf' = [buf EXCEPT ![c] = filled]
        /\ oob' = [oob EXCEPT ![c] = control]
        /\ got' = [got EXCEPT ![c] = <<d>>]
        /\ extracted' = [extracted EXCEPT ![c] = TRUE]
        /\ decoded' = [decoded EXCEPT ![c] = TRUE]
        /\ ret' = [ret EXCEPT ![c] =
                     <<[ntp |-> r.ntp, hwRxTime |-> timeUnix(ts.Sec, ts.Nsec),
                        remAddr |-> sockaddrToUDP(d.from), err |-> r.err]>>]
        /\ pc' = [pc EXCEPT ![c] = "done"]
        /\ UNCHANGED <<kind, nrecv>>

(* the blocked Recvmsg completes and the function returns *)
ReadPacketWithKernelTimestamp_Return(c) ==
    /\ pc[c] = "recv" /\ kind[c] = "ReadPacketWithKernelTimestamp"
    /\ \/ \E e \in RecvErrors : ReadPacketWithKernelTimestamp_Fail(c, e)
       \/ \E d \in Datagrams : ReadPacketWithKernelTimestamp_Deliver(c, d)
    /\ UNCHANGED codecVars

CodecIdle ==
    /\ pkt = ZeroPacket
    /\ wire = <<>>
    /\ encRes = <<>>
    /\ decRes = <<>>
    /\ validRes = <<>>

Init == CodecIdle /\ RecvInit

Next ==
    \E c \in Calls :
        \/ ReadNTPPacket_Call(c)
        \/ ReadNTPPacket_Return(c)
        \/ ReadPacketWithKernelTimestamp_Call(c)
        \/ ReadPacketWithKernelTimestamp_Return(c)

Spec == Init /\ [][Next]_vars

----------------------------------------------------------------------------
(* Claims about the codec and the validator, checked under SpecCodec *)

LeapIndicator(settings) == settings \div 64
VersionNumber(settings) == (settings \div 8) % 8
Mode(settings) == settings % 8

(* C1: ValidSettingsFormat returns true exactly when the leap indicator    *)
(* (bits 7-6) is 0 or 3, the version (bits 5-3) is in 1..4 and the mode    *)
(* (bits 2-0) is 3; 0x1B and 0xE3 are accepted, 0x1C, 0x9B and 0x00 are    *)
(* rejected.                                                               *)
C1_ValidSettingsFormat ==
    validRes # <<>> =>
        /\ validRes[1] = ( /\ LeapIndicator(pkt.Settings) \in {0, 3}
                           /\ VersionNumber(pkt.Settings) \in 1..4
                           /\ Mode(pkt.Settings) = 3 )
        /\ (pkt.Settings \in {27, 227} => validRes[1] = TRUE)
        /\ (pkt.Settings \in {28, 155, 0} => validRes[1] = FALSE)

C1_Witness == validRes = <<TRUE>> /\ pkt.Settings = 227

(* C2: round trip: Bytes(p) succeeds, BytesToPacket of those bytes         *)
(* succeeds and returns a Packet equal to p in every field.                *)
C2_RoundTrip ==
    (decRes # <<>> /\ wire = encRes[1].b) =>
        /\ encRes[1].err = NoErr
        /\ decRes[1].err = NoErr
        /\ decRes[1].ntp = pkt

C2_Witness ==
    /\ decRes # <<>> /\ wire = encRes[1].b
    /\ decRes[1].ntp = pkt
    /\ pkt.Poll = -128 /\ pkt.Precision = -128
    /\ pkt.RootDelay = <<65535, 65535>> /\ pkt.TxTimeFrac = <<258, 772>>

(* the value of the big-endian 16-bit word at bytes off+1, off+2 *)
Word16At(b, off) == b[off + 1] * 256 + b[off + 2]

TwosComplement8(x) == IF x < 0 THEN x + 256 ELSE x

(* C3: Bytes(p) returns exactly 48 bytes: Settings, Stratum, Poll,         *)
(* Precision in one byte each, then RootDelay, RootDispersion,             *)
(* ReferenceID and the four timestamps as seconds then fraction, each a    *)
(* 4-byte big-endian word.                                                 *)
C3_FixedSizeLayout ==
    encRes # <<>> =>
        LET b == encRes[1].b IN
        /\ encRes[1].err = NoErr
        /\ Len(b) = 48
        /\ \A i \in 1..48 : b[i] \in 0..255
        /\ b[1] = pkt.Settings
        /\ b[2] = pkt.Stratum
        /\ b[3] = TwosComplement8(pkt.Poll)
        /\ b[4] = TwosComplement8(pkt.Precision)
        /\ <<Word16At(b, 4), Word16At(b, 6)>> = pkt.RootDelay
        /\ <<Word16At(b, 8), Word16At(b, 10)>> = pkt.RootDispersion
        /\ <<Word16At(b, 12), Word16At(b, 14)>> = pkt.ReferenceID
        /\ <<Word16At(b, 16), Word16At(b, 18)>> = pkt.RefTimeSec
        /\ <<Word16At(b, 20), Word16At(b, 22)>> = pkt.RefTimeFrac
        /\ <<Word16At(b, 24), Word16At(b, 26)>> = pkt.OrigTimeSec
        /\ <<Word16At(b, 28), Word16At(b, 30)>> = pkt.OrigTimeFrac
        /\ <<Word16At(b, 32), Word16At(b, 34)>> = pkt.RxTimeSec
        /\ <<Word16At(b, 36), Word16At(b, 38)>> = pkt.RxTimeFrac
        /\ <<Word16At(b, 40), Word16At(b, 42)>> = pkt.TxTimeSec
        /\ <<Word16At(b, 44), Word16At(b, 46)>> = pkt.TxTimeFrac

C3_Witness ==
    /\ encRes # <<>>
    /\ Len(encRes[1].b) = 48
    /\ pkt.Poll = -1
    /\ pkt.ReferenceID = <<258, 772>>
    /\ pkt.RootDelay = <<65535, 65535>>

(* C4: BytesToPacket returns an error for every buffer of length 0..47 *)
C4_ShortBufferRejected ==
    (decRes # <<>> /\ Len(wire) < 48) => decRes[1].err # NoErr

C4_Witness ==
    /\ decRes # <<>> /\ Len(wire) = 47
    /\ decRes[1].err = "ErrUnexpectedEOF"
    /\ pkt.Settings = 255

(* C9: for every buffer of 48 bytes or more BytesToPacket succeeds and     *)
(* the Packet is the one the first 48 bytes encode, whatever follows       *)
(* them; 48 zero bytes give the all-zero Packet.                           *)
C9_DecodeTotalOnFirst48 ==
    (decRes # <<>> /\ Len(wire) >= 48 /\ SubSeq(wire, 1, 48) = encRes[1].b) =>
        /\ decRes[1].err = NoErr
        /\ decRes[1].ntp = pkt
        /\ (SubSeq(wire, 1, 48) = [i \in 1..48 |-> 0]
               => decRes[1].ntp = ZeroPacket)

C9_Witness ==
    /\ decRes # <<>> /\ Len(wire) > 48 /\ wire[49] = 255
    /\ decRes[1].err = NoErr
    /\ decRes[1].ntp = pkt
    /\ pkt.Settings = 27 /\ pkt.TxTimeFrac = <<258, 772>>

(* C6: whenever BytesToPacket, ReadNTPPacket or                            *)
(* ReadPacketWithKernelTimestamp returns an error, the Packet is nil, the  *)
(* timestamp is the zero time and the address is nil.                      *)
C6_NoPartialResultOnError ==
    /\ (decRes # <<>> /\ decRes[1].err # NoErr) => decRes[1].ntp = NilPtr
    /\ \A c \in 1..NumCalls :
          (ret[c] # <<>> /\ ret[c][1].err # NoErr) =>
              /\ ret[c][1].ntp = NilPtr
              /\ ret[c][1].hwRxTime = [zero |-> TRUE]
              /\ ret[c][1].remAddr = NilPtr

----------------------------------------------------------------------------
(* Claims about the receive functions, checked under Spec *)

Returned(c) == ret[c] # <<>>

Received(c) == got[c] # <<>>

(* C5: in ReadPacketWithKernelTimestamp, when the ancillary data the       *)
(* receive returned is shorter than the control-message header plus the    *)
(* timestamp record (no control message at all included), the call fails   *)
(* with AncillaryDataError instead of returning a timestamp.               *)
C5_AncillaryBoundsChecked ==
    \A c \in Calls :
        ( /\ kind[c] = "ReadPacketWithKernelTimestamp"
          /\ Returned(c) /\ Received(c)
          /\ Len(got[c][1].control) < CmsgSpace(0) + SizeofTimespec )
        => ret[c][1].err = "AncillaryDataError"

(* C7: an invocation issues at most one receive; none when the descriptor  *)
(* lookup failed; and when the receive failed the call returns that error  *)
(* with no second receive, no timestamp extraction and no decoding.        *)
C7_ExactlyOneAttempt ==
    \A c \in Calls :
        /\ nrecv[c] <= 1
        /\ (Returned(c) /\ ret[c][1].err = "SocketAccessError")
              => (nrecv[c] = 0 /\ ~Received(c) /\ ~extracted[c] /\ ~decoded[c])
        /\ (Returned(c) /\ ret[c][1].err \in RecvErrors)
              => (nrecv[c] = 1 /\ ~Received(c) /\ ~extracted[c] /\ ~decoded[c])
        /\ (Returned(c) /\ ret[c][1].err = NoErr)
              => (nrecv[c] = 1 /\ Received(c))

C7_Witness ==
    /\ Returned(1) /\ ret[1][1].err = "i/o timeout"
    /\ kind[1] = "ReadNTPPacket" /\ nrecv[1] = 1
    /\ Returned(2) /\ ret[2][1].err = "SocketAccessError" /\ nrecv[2] = 0

(* C8: every call works in its own freshly allocated buffers, so whatever  *)
(* the interleaving, the bytes of its buffers past the received data are   *)
(* zero, and two calls of the same function that received the same         *)
(* datagram return the same Packet, timestamp and address.                 *)
C8_Independence ==
    /\ \A c \in Calls :
          (Returned(c) /\ Received(c)) =>
              /\ \A i \in 1..Len(buf[c]) :
                    i > Len(got[c][1].payload) => buf[c][i] = 0
              /\ \A i \in 1..Len(oob[c]) :
                    i > Len(got[c][1].control) => oob[c][i] = 0
              /\ ret[c][1].remAddr.IP = got[c][1].from.Addr
              /\ ret[c][1].remAddr.Port = got[c][1].from.Port
    /\ \A c1, c2 \in Calls :
          ( /\ Returned(c1) /\ Returned(c2)
            /\ Received(c1) /\ Received(c2)
            /\ kind[c1] = kind[c2]
            /\ got[c1] = got[c2] )
          => ret[c1] = ret[c2]

C8_Witness ==
    /\ Returned(1) /\ Returned(2)
    /\ Received(1) /\ got[1] = got[2]
    /\ kind[1] = "ReadPacketWithKernelTimestamp" /\ kind[2] = kind[1]
    /\ Len(got[1][1].payload) = 47
    /\ Len(got[1][1].control) = 32
    /\ ret[1] = ret[2]
    /\ ret[1][1].hwRxTime = [sec |-> 1700000000, nsec |-> 123456789]

(* C10: a received datagram of fewer than 48 payload bytes makes the       *)
(* receive function return a decoding error; a Packet comes back without   *)
(* error only when the datagram supplied at least 48 bytes.                *)
C10_ShortDatagramRejected ==
    \A c \in Calls :
        (Returned(c) /\ Received(c)) =>
            /\ Len(got[c][1].payload) < 48 => ret[c][1].err # NoErr
            /\ ret[c][1].err = NoErr => Len(got[c][1].payload) >= 48

====
